---- MODULE Spec2Model ----
(***************************************************************************)
(* Portfolio.tsx: the FancyCursor component (pointer tracking, dark-surface *)
(* detection, click particles with timed expiry) and the Portfolio root     *)
(* (the route between the home view and a project page, and the project     *)
(* page's content lookup).                                                  *)
(*                                                                          *)
(* Strings that are searched for substrings, or that hold characters        *)
(* outside ASCII, are written as the sequence of their UTF-16 code units.   *)
(* Math.random() and the angles are fixed point: a random draw is a number  *)
(* of thousandths in 0..999, an angle a number of microradians, a distance  *)
(* a number of thousandths of a pixel.  Date.now() is counted in            *)
(* milliseconds since the page was loaded.                                  *)
(***************************************************************************)
EXTENDS Integers, Sequences, FiniteSets, TLC

VARIABLES
  pos,        \* useState({x: 0, y: 0})            (line 30)
  down,       \* useState(false)                   (line 31)
  isDark,     \* useState(false)                   (line 32)
  particles,  \* useState([])                      (line 33)
  route,      \* useState({page: "home"})          (line 134)
  mounted,    \* whether the Portfolio tree, FancyCursor included, is mounted
  listeners,  \* the event types FancyCursor has a listener for on window
  timers,     \* the pending setTimeout callbacks of handleClick, in firing order
  now         \* Date.now(), in ms

vars == <<pos, down, isDark, particles, route, mounted, listeners, timers, now>>

\* ------------------------------------------------------------------ bounds
\* The clock advances in steps of TickMs while now < MaxTime (a burst of user
\* activity); beyond that it advances from one timer's due time to the next.
TickMs == 5
MaxTime == 10
\* At most MaxPending expiry timers are pending at a time.
MaxPending == 2

\* ------------------------------------------------------- program constants
\* const count = 10 (line 67)
count == 10
\* the delay of setTimeout (line 75), in ms
Duration == 750
\* Math.PI * 2 (line 70), in microradians
TwoPi == 6283185
\* the jitter factor 0.4 (line 70): microradians per thousandth of a draw
JitterScale == 400
\* the centre 0.5 of the jitter (line 70), in thousandths
JitterCentre == 500
\* the least distance 36 (line 71), in thousandths of a pixel
DistBase == 36000
\* the distance range 28 (line 71): thousandths of a pixel per thousandth of a draw
DistScale == 28

\* ------------------------------------------------------------------ inputs
\* clientX and clientY of the events
Xs == {1, 2}
Ys == {3}
\* The draws of Math.random() during one click: draw k of the stream seeded s.
RandomSeeds == {0, 999}
Rand(seed, k) == (seed + 37 * k) % 1000

\* "bg-black"
MarkerBgBlack ==
  <<98, 103, 45, 98, 108, 97, 99, 107>>

\* "text-white"
MarkerTextWhite ==
  <<116, 101, 120, 116, 45, 119, 104, 105, 116, 101>>

\* "bg-neutral-900"
MarkerBgNeutral900 ==
  <<98, 103, 45, 110, 101, 117, 116, 114, 97, 108, 45, 57, 48, 48>>

\* className of the root div: "min-h-screen bg-white text-black font-sans cursor-none [*]:cursor-none"
ClsRoot ==
  <<109, 105, 110, 45, 104, 45, 115, 99, 114, 101, 101, 110, 32, 98, 103, 45, 119, 104,
    105, 116, 101, 32, 116, 101, 120, 116, 45, 98, 108, 97, 99, 107, 32, 102, 111, 110,
    116, 45, 115, 97, 110, 115, 32, 99, 117, 114, 115, 111, 114, 45, 110, 111, 110,
    101, 32, 91, 42, 93, 58, 99, 117, 114, 115, 111, 114, 45, 110, 111, 110, 101>>

\* className of section#experience: "bg-black text-white"
ClsExperience ==
  <<98, 103, 45, 98, 108, 97, 99, 107, 32, 116, 101, 120, 116, 45, 119, 104, 105, 116,
    101>>

\* className of the div inside section#experience: "mx-auto max-w-6xl px-6 py-16"
ClsExperienceInner ==
  <<109, 120, 45, 97, 117, 116, 111, 32, 109, 97, 120, 45, 119, 45, 54, 120, 108, 32,
    112, 120, 45, 54, 32, 112, 121, 45, 49, 54>>

\* className of section#skills: "mx-auto max-w-6xl px-6 py-12"
ClsSkills ==
  <<109, 120, 45, 97, 117, 116, 111, 32, 109, 97, 120, 45, 119, 45, 54, 120, 108, 32,
    112, 120, 45, 54, 32, 112, 121, 45, 49, 50>>

\* className of the project page's main element: "min-h-screen bg-white text-black"
ClsMain ==
  <<109, 105, 110, 45, 104, 45, 115, 99, 114, 101, 101, 110, 32, 98, 103, 45, 119, 104,
    105, 116, 101, 32, 116, 101, 120, 116, 45, 98, 108, 97, 99, 107>>

\* className of the project page's header: "sticky top-0 z-50 bg-white/90 backdrop-blur border-b border-black/10"
ClsTopBar ==
  <<115, 116, 105, 99, 107, 121, 32, 116, 111, 112, 45, 48, 32, 122, 45, 53, 48, 32,
    98, 103, 45, 119, 104, 105, 116, 101, 47, 57, 48, 32, 98, 97, 99, 107, 100, 114,
    111, 112, 45, 98, 108, 117, 114, 32, 98, 111, 114, 100, 101, 114, 45, 98, 32, 98,
    111, 114, 100, 101, 114, 45, 98, 108, 97, 99, 107, 47, 49, 48>>

\* className of the div inside the project page's header: "mx-auto max-w-6xl px-6 py-4 flex items-center justify-between"
ClsTopBarInner ==
  <<109, 120, 45, 97, 117, 116, 111, 32, 109, 97, 120, 45, 119, 45, 54, 120, 108, 32,
    112, 120, 45, 54, 32, 112, 121, 45, 52, 32, 102, 108, 101, 120, 32, 105, 116, 101,
    109, 115, 45, 99, 101, 110, 116, 101, 114, 32, 106, 117, 115, 116, 105, 102, 121,
    45, 98, 101, 116, 119, 101, 101, 110>>

\* className of the back button: "inline-flex items-center gap-2 rounded-2xl border border-black px-3 py-2 text-sm hover:bg-black hover:text-white"
ClsBack ==
  <<105, 110, 108, 105, 110, 101, 45, 102, 108, 101, 120, 32, 105, 116, 101, 109, 115,
    45, 99, 101, 110, 116, 101, 114, 32, 103, 97, 112, 45, 50, 32, 114, 111, 117, 110,
    100, 101, 100, 45, 50, 120, 108, 32, 98, 111, 114, 100, 101, 114, 32, 98, 111, 114,
    100, 101, 114, 45, 98, 108, 97, 99, 107, 32, 112, 120, 45, 51, 32, 112, 121, 45,
    50, 32, 116, 101, 120, 116, 45, 115, 109, 32, 104, 111, 118, 101, 114, 58, 98, 103,
    45, 98, 108, 97, 99, 107, 32, 104, 111, 118, 101, 114, 58, 116, 101, 120, 116, 45,
    119, 104, 105, 116, 101>>

\* class of an element of the host page outside the root div: "bg-neutral-900"
ClsNeutral ==
  <<98, 103, 45, 110, 101, 117, 116, 114, 97, 108, 45, 57, 48, 48>>

\* ------------------------------------------------------------ the document
\* document.elementFromPoint returns an element of the rendered page, or null.
Null == "null"
HomeElements == {"experience", "experienceInner", "skills"}
ProjectElements == {"main", "topBar", "topBarInner", "back"}
Elements == {"root", "host"} \cup HomeElements \cup ProjectElements

\* n.classList?.value || "" of the element
ClassOf(el) ==
  CASE el = "root" -> ClsRoot
    [] el = "experience" -> ClsExperience
    [] el = "experienceInner" -> ClsExperienceInner
    [] el = "skills" -> ClsSkills
    [] el = "main" -> ClsMain
    [] el = "topBar" -> ClsTopBar
    [] el = "topBarInner" -> ClsTopBarInner
    [] el = "back" -> ClsBack
    [] el = "host" -> ClsNeutral
    [] OTHER -> <<>>

\* n.parentElement; the elements above the root div carry no class
ParentOf(el) ==
  CASE el = "experience" -> "root"
    [] el = "experienceInner" -> "experience"
    [] el = "skills" -> "root"
    [] el = "main" -> "root"
    [] el = "topBar" -> "main"
    [] el = "topBarInner" -> "topBar"
    [] el = "back" -> "topBarInner"
    [] OTHER -> Null

\* The elements the document holds: Portfolio renders Home or ProjectPage
\* inside the root div; after the unmount only the host page is left.
Rendered(r, m) ==
  IF ~m THEN {"host"}
  ELSE {"root", "host"} \cup (IF r.page = "home" THEN HomeElements ELSE ProjectElements)

\* cls.includes(sub)
Includes(cls, sub) ==
  \E i \in 1..(Len(cls) - Len(sub) + 1) : SubSeq(cls, i, i + Len(sub) - 1) = sub

\* the condition of the if in isDarkBg
HasMarker(cls) ==
  \/ Includes(cls, MarkerBgBlack)
  \/ Includes(cls, MarkerTextWhite)
  \/ Includes(cls, MarkerBgNeutral900)

\* The outcome of the if for each element of the document: the class names
\* are fixed in the markup, so it is computed once.
Marked == [el \in Elements |-> HasMarker(ClassOf(el))]

\* isDarkBg without the climb: only the element under the pointer is looked at
IsDarkBgNoClimb(el) == el # Null /\ Marked[el]

\* isDarkBg: climb from el through parentElement until a class matches
RECURSIVE IsDarkBg(_)
IsDarkBg(el) ==
  IF el = Null THEN FALSE
  ELSE IF Marked[el] THEN TRUE
  ELSE IsDarkBg(ParentOf(el))

\* ----------------------------------------------------------------- events
\* The event types FancyCursor listens to on window.
AllListeners == {"mousemove", "mousedown", "mouseup", "click"}

\* ------------------------------------------------------------- the cursor
\* setPos of mm with x and y exchanged
mmPosSwapped(x, y) == [x |-> y, y |-> x]

\* setPos({ x: e.clientX, y: e.clientY })
mmPos(x, y) == [x |-> x, y |-> y]

\* mm
MouseMove(x, y, el) ==
  /\ el \in Rendered(route, mounted) \cup {Null}
  /\ IF "mousemove" \in listeners
       THEN /\ pos' = mmPos(x, y)
            /\ isDark' = IsDarkBg(el)
       ELSE UNCHANGED <<pos, isDark>>
  /\ UNCHANGED <<down, particles, route, mounted, listeners, timers, now>>

\* md
MouseDown ==
  /\ down' = IF "mousedown" \in listeners THEN TRUE ELSE down
  /\ UNCHANGED <<pos, isDark, particles, route, mounted, listeners, timers, now>>

\* mu
MouseUp ==
  /\ down' = IF "mouseup" \in listeners THEN FALSE ELSE down
  /\ UNCHANGED <<pos, isDark, particles, route, mounted, listeners, timers, now>>

\* title of the crm content (line 364), in Russian
TitleCrm ==
  <<1052, 1080, 1085, 1080, 8209, 67, 82, 77, 32, 1076, 1083, 1103, 32, 1086, 1090,
    1076, 1077, 1083, 1072, 32, 1087, 1088, 1086, 1076, 1072, 1078>>

\* bullet 1 of the crm content (line 366)
BulletCrm1 ==
  <<1057, 1076, 1077, 1083, 1082, 1080, 58, 32, 1089, 1090, 1072, 1090, 1091, 1089,
    1099, 44, 32, 1086, 1090, 1074, 1077, 1090, 1089, 1090, 1074, 1077, 1085, 1085,
    1099, 1077>>

\* bullet 2 of the crm content (line 367)
BulletCrm2 ==
  <<1042, 1086, 1088, 1086, 1085, 1082, 1072, 58, 32, 1089, 1090, 1072, 1076, 1080,
    1080, 44, 32, 1082, 1086, 1085, 1074, 1077, 1088, 1089, 1080, 1080>>

\* bullet 3 of the crm content (line 368)
BulletCrm3 ==
  <<1047, 1072, 1076, 1072, 1095, 1080, 58, 32, 1076, 1077, 1076, 1083, 1072, 1081,
    1085, 1099, 44, 32, 1085, 1072, 1087, 1086, 1084, 1080, 1085, 1072, 1085, 1080, 1103>>

\* bullet 4 of the crm content (line 369)
BulletCrm4 ==
  <<66, 73, 8209, 1074, 1100, 1102, 58, 32, 1087, 1088, 1086, 1075, 1085, 1086, 1079,
    32, 1080, 32, 1086, 1090, 1095, 1105, 1090, 1085, 1086, 1089, 1090, 1100>>

\* title of the game content (line 376)
TitleGame ==
  <<1048, 1075, 1088, 1086, 1074, 1086, 1081, 32, 1087, 1088, 1086, 1090, 1086, 1090,
    1080, 1087, 32, 40, 50, 68, 41>>

\* bullet 1 of the game content (line 377)
BulletGame1 ==
  <<1069, 1082, 1086, 1085, 1086, 1084, 1080, 1082, 1072, 32, 1088, 1077, 1089, 1091,
    1088, 1089, 1086, 1074>>

\* bullet 2 of the game content (line 377)
BulletGame2 ==
  <<1048, 1048, 32, 1074, 1088, 1072, 1075, 1086, 1074>>

\* bullet 3 of the game content (line 377)
BulletGame3 ==
  <<85, 73, 8209, 1084, 1077, 1085, 1102, 44, 32, 1090, 1091, 1090, 1086, 1088, 1080,
    1072, 1083>>

\* bullet 4 of the game content (line 377)
BulletGame4 ==
  <<1052, 1077, 1090, 1088, 1080, 1082, 1080, 32, 1091, 1076, 1077, 1088, 1078, 1072,
    1085, 1080, 1103>>

\* title of the etl content (line 383)
TitleEtl ==
  <<69, 84, 76, 8209, 1087, 1072, 1081, 1087, 1083, 1072, 1081, 1085, 32, 1076, 1072,
    1085, 1085, 1099, 1093>>

\* bullet 1 of the etl content (line 384)
BulletEtl1 ==
  <<1055, 1072, 1088, 1089, 1080, 1085, 1075, 32, 67, 83, 86, 47, 72, 84, 84, 80>>

\* bullet 2 of the etl content (line 384)
BulletEtl2 ==
  <<1054, 1095, 1080, 1089, 1090, 1082, 1072, 32, 112, 97, 110, 100, 97, 115>>

\* bullet 3 of the etl content (line 384)
BulletEtl3 ==
  <<1042, 1080, 1090, 1088, 1080, 1085, 1072, 32, 83, 81, 76, 105, 116, 101, 47, 80,
    97, 114, 113, 117, 101, 116>>

\* bullet 4 of the etl content (line 384)
BulletEtl4 ==
  <<1044, 1072, 1096, 1073, 1086, 1088, 1076, 1099, 32, 80, 111, 119, 101, 114, 32, 66,
    73>>

\* title of the default content (line 389): the Russian word for Project
TitleDefault ==
  <<1055, 1088, 1086, 1077, 1082, 1090>>

\* the bullet of the default content (line 389): Russian for Description soon
BulletDefault ==
  <<1054, 1087, 1080, 1089, 1072, 1085, 1080, 1077, 32, 1089, 1082, 1086, 1088, 1086>>

\* ---------------------------------------------------------- the particles
\* the angle of particle i with the jitter factor doubled
AngleWide(i, r) == (TwoPi * i) \div count + (r - JitterCentre) * (2 * JitterScale)

\* (Math.PI * 2 * i) / count + (Math.random() - 0.5) * 0.4, r the draw
Angle(i, r) == (TwoPi * i) \div count + (r - JitterCentre) * JitterScale

\* 36 + Math.random() * 28, r the draw
Dist(r) == DistBase + r * DistScale

\* Date.now() + i
ParticleId(t, i) == t + i

\* the body of the for loop: the particle pushed for index i
Particle(t, x, y, seed, i) ==
  [id |-> ParticleId(t, i), x |-> x, y |-> y,
   angle |-> Angle(i, Rand(seed, 2 * i)), dist |-> Dist(Rand(seed, 2 * i + 1))]

\* created, after the for loop
Created(t, x, y, seed) == [k \in 1..count |-> Particle(t, x, y, seed, k - 1)]

\* (p) => [...p, ...created]
AppendCreated(p, created) == p \o created

\* the updater of the timer with the negation of the filter lost
RemoveCreatedKept(p, created) ==
  SelectSeq(p, LAMBDA pt : \E k \in 1..Len(created) : created[k].id = pt.id)

\* (p) => p.filter((pt) => !created.some((c) => c.id === pt.id))
RemoveCreated(p, created) ==
  SelectSeq(p, LAMBDA pt : ~(\E k \in 1..Len(created) : created[k].id = pt.id))

\* ------------------------------------------------------------- the router
\* the cards with the id of the third one misspelt
CardIdsMisspelt == {"crm", "game", "elt"}

\* the ids of the project cards
CardIds == {"crm", "game", "etl"}

\* onOpen dropping the id
onOpenNoId(id) == [page |-> "project", id |-> ""]

\* (id) => setRoute({ page: "project", id })
onOpen(id) == [page |-> "project", id |-> id]

\* () => setRoute({ page: "home" })
onBack == [page |-> "home"]

\* The ids navigateToProject is called with when it is called directly: the
\* ids of the cards and ids no card carries.
AnyIds == CardIds \cup {"unknown-id", "CRM", ""}

\* The default branch of the switch (line 389).
DefaultContent ==
  [title |-> TitleDefault, bullets |-> <<BulletDefault>>, tech |-> "", screens |-> <<>>]

\* The switch with the case "etl" lost to the default branch.
ResolveContentNoEtl(id) ==
  CASE id = "crm" ->
         [title |-> TitleCrm,
          bullets |-> <<BulletCrm1, BulletCrm2, BulletCrm3, BulletCrm4>>,
          tech |-> "Excel + Python + Power BI",
          screens |-> <<"/screens/crm1.png", "/screens/crm2.png">>]
    [] id = "game" ->
         [title |-> TitleGame,
          bullets |-> <<BulletGame1, BulletGame2, BulletGame3, BulletGame4>>,
          tech |-> "Game Engine + JS/TS",
          screens |-> <<"/screens/game1.png", "/screens/game2.gif">>]
    [] OTHER -> DefaultContent

\* content of ProjectPage: switch (id)
ResolveContent(id) ==
  CASE id = "crm" ->
         [title |-> TitleCrm,
          bullets |-> <<BulletCrm1, BulletCrm2, BulletCrm3, BulletCrm4>>,
          tech |-> "Excel + Python + Power BI",
          screens |-> <<"/screens/crm1.png", "/screens/crm2.png">>]
    [] id = "game" ->
         [title |-> TitleGame,
          bullets |-> <<BulletGame1, BulletGame2, BulletGame3, BulletGame4>>,
          tech |-> "Game Engine + JS/TS",
          screens |-> <<"/screens/game1.png", "/screens/game2.gif">>]
    [] id = "etl" ->
         [title |-> TitleEtl,
          bullets |-> <<BulletEtl1, BulletEtl2, BulletEtl3, BulletEtl4>>,
          tech |-> "Python (pandas, requests)",
          screens |-> <<"/screens/etl1.png">>]
    [] OTHER -> DefaultContent

\* navigateToProject(id): onOpen called with any id
NavigateToProject(id) ==
  /\ mounted
  /\ route' = onOpen(id)
  /\ UNCHANGED <<pos, down, isDark, particles, mounted, listeners, timers, now>>

\* navigateHome(): onBack called
NavigateHome ==
  /\ mounted
  /\ route' = onBack
  /\ UNCHANGED <<pos, down, isDark, particles, mounted, listeners, timers, now>>

\* The targets of a click had the project cards been rendered on both views.
ClickTargetsCardsEverywhere(r, m) ==
  IF ~m THEN {"none"}
  ELSE IF r.page = "home" THEN {"none"} \cup CardIds
  ELSE {"none", "back"} \cup CardIds

\* What a click can land on: a project card of Home, the back button of
\* ProjectPage, or anything else.
ClickTargets(r, m) ==
  IF ~m THEN {"none"}
  ELSE IF r.page = "home" THEN {"none"} \cup CardIds
  ELSE {"none", "back"}

\* The click event: React's onClick of the target runs first (the root
\* container is below window), then the window listener handleClick.
Click(x, y, target, seed) ==
  /\ target \in ClickTargets(route, mounted)
  /\ IF "click" \in listeners
       THEN Len(timers) < MaxPending /\ now <= MaxTime + Duration
       ELSE TRUE
  /\ route' = IF target \in CardIds THEN onOpen(target)
              ELSE IF target = "back" THEN onBack
              ELSE route
  /\ IF "click" \in listeners
       THEN LET created == Created(now, x, y, seed)
            IN /\ particles' = AppendCreated(particles, created)
               /\ timers' = Append(timers, [due |-> now + Duration, created |-> created])
       ELSE UNCHANGED <<particles, timers>>
  /\ UNCHANGED <<pos, down, isDark, mounted, listeners, now>>

\* The callback of setTimeout, run once its delay has passed.  React drops
\* the update of an unmounted component.
Expire ==
  /\ timers # <<>>
  /\ Head(timers).due <= now
  /\ timers' = Tail(timers)
  /\ particles' = IF mounted THEN RemoveCreated(particles, Head(timers).created)
                  ELSE particles
  /\ UNCHANGED <<pos, down, isDark, route, mounted, listeners, now>>

\* The cleanups of the two effects: the four listeners are removed; the
\* pending timeouts are left.
Unmount ==
  /\ mounted
  /\ mounted' = FALSE
  /\ listeners' = {}
  /\ UNCHANGED <<pos, down, isDark, particles, route, timers, now>>

\* ---------------------------------------------------------------- the clock
\* Time passes during a burst of activity; a timer that is due runs first.
Tick ==
  /\ now < MaxTime
  /\ IF timers = <<>> THEN TRUE ELSE now + TickMs <= Head(timers).due
  /\ now' = now + TickMs
  /\ UNCHANGED <<pos, down, isDark, particles, route, mounted, listeners, timers>>

\* Nothing happens until the next timer is due.
Sleep ==
  /\ timers # <<>>
  /\ now < Head(timers).due
  /\ now' = Head(timers).due
  /\ UNCHANGED <<pos, down, isDark, particles, route, mounted, listeners, timers>>

\* ------------------------------------------------------ the specifications
Init ==
  /\ pos = [x |-> 0, y |-> 0]
  /\ down = FALSE
  /\ isDark = FALSE
  /\ particles = <<>>
  /\ route = [page |-> "home"]
  /\ mounted = TRUE
  /\ listeners = AllListeners
  /\ timers = <<>>
  /\ now = 0

\* The page as the user drives it.  The draws of Math.random() come from one
\* stream here; ParticleNext draws them from every stream.
Next ==
  \/ \E x \in Xs, y \in Ys, el \in Elements \cup {Null} : MouseMove(x, y, el)
  \/ MouseDown
  \/ MouseUp
  \/ \E x \in Xs, y \in Ys, target \in CardIds \cup {"none", "back"} : Click(x, y, target, 0)
  \/ Expire
  \/ Unmount
  \/ Tick
  \/ Sleep

Spec == Init /\ [][Next]_vars

\* The particle engine alone: clicks that land on no card, the timers, the clock.
ParticleNext ==
  \/ \E x \in Xs, y \in Ys, seed \in RandomSeeds : Click(x, y, "none", seed)
  \/ Expire
  \/ Unmount
  \/ Tick
  \/ Sleep

ParticleSpec == Init /\ [][ParticleNext]_vars

\* The event loop runs a timer that is due, and time does not stop.
LiveSpec == ParticleSpec /\ WF_vars(Expire) /\ WF_vars(Sleep)

\* The router's operations called directly, with the pointer moving.
RouterNext ==
  \/ \E id \in AnyIds : NavigateToProject(id)
  \/ NavigateHome
  \/ \E x \in Xs, y \in Ys, el \in Elements \cup {Null} : MouseMove(x, y, el)
  \/ MouseDown
  \/ MouseUp
  \/ Unmount

RouterSpec == Init /\ [][RouterNext]_vars

\* ================================================================ properties
\* The particles of the batches whose timers are pending, in click order.
RECURSIVE PendingParticles(_)
PendingParticles(ts) ==
  IF ts = <<>> THEN <<>> ELSE Head(ts).created \o PendingParticles(Tail(ts))

\* C1: batches do not interact: while the cursor is mounted the live particles
\* are exactly the particles of the batches whose expiry timer has not run,
\* so the expiry of one batch removes no particle of another batch.
C1_BatchesDoNotInteract ==
  mounted => particles = PendingParticles(timers)

\* C9: every particle has a unique identifier: no two particles of the live
\* set have the same id, within one batch and across batches.
C9_UniqueIds ==
  \A i, j \in 1..Len(particles) : i # j => particles[i].id # particles[j].id

\* The ids of the batch clicked at time t.
BatchIds(t) == {ParticleId(t, i) : i \in 0..(count - 1)}

\* A batch clicked at time t has its timer pending.
BatchPending(t) == \E k \in 1..Len(timers) : timers[k].due = t + Duration

\* The instants at which the clock lets a click happen.
ClickTimes ==
  {k * TickMs + w * Duration : k \in 0..(MaxTime \div TickMs + 1), w \in 0..1}

\* C2: a click at (x, y) that the handler receives adds exactly count
\* particles at the end of the list and leaves the others as they were; the
\* new ones all have origin (x, y), and the i-th has an angle within 0.2 rad
\* (200000 microradians) of i * 2 * pi / count.
C2_ClickAddsBatch ==
  [][\A x \in Xs, y \in Ys, seed \in RandomSeeds :
       (Click(x, y, "none", seed) /\ "click" \in listeners) =>
         /\ Len(particles') = Len(particles) + 10
         /\ SubSeq(particles', 1, Len(particles)) = particles
         /\ \A i \in 0..9 :
              LET p == particles'[Len(particles) + i + 1]
                  d == p.angle - (TwoPi * i) \div 10
              IN /\ p.x = x
                 /\ p.y = y
                 /\ -200000 <= d
                 /\ d <= 200000]_vars

\* A second click has added its batch behind a live one, at another origin,
\* and the first particle's jitter is at its lower end.
C2_Witness ==
  /\ Len(particles) = 2 * count
  /\ Len(timers) = 2
  /\ particles[1].angle = -200000
  /\ particles[count + 1].x # particles[1].x

\* C3: every batch is removed in the end: a batch whose timer is pending
\* leads to its timer having run and, on a mounted cursor, to none of its
\* ids being in the live set, whatever clicks arrive in between.
C3_BatchRemoved ==
  \A t \in ClickTimes :
    BatchPending(t) ~>
      (~BatchPending(t) /\ (mounted => \A k \in 1..Len(particles) : particles[k].id \notin BatchIds(t)))

\* The first batch has expired while a later batch, clicked at least count
\* ms after it, is still live with all its particles.
C3_Witness ==
  /\ mounted
  /\ now >= Duration
  /\ Len(timers) = 1
  /\ Len(particles) = count
  /\ particles[1].id >= count

\* Every click happens at one of ClickTimes.
ClickTimesCover ==
  \A k \in 1..Len(timers) : timers[k].due - Duration \in ClickTimes

\* C4: navigateToProject(id) leaves the route ProjectDetail{id} for every id,
\* a card's or not, navigateHome() leaves it Home, and the route is always
\* exactly one of the two variants.
C4_NavigationSucceeds ==
  /\ [](\/ route = [page |-> "home"]
        \/ \E id \in AnyIds : route = [page |-> "project", id |-> id])
  /\ [][/\ \A id \in AnyIds :
             NavigateToProject(id) => route' = [page |-> "project", id |-> id]
        /\ NavigateHome => route' = [page |-> "home"]]_vars

\* navigateToProject has been called with an id that no card carries.
C4_Witness ==
  route = [page |-> "project", id |-> "unknown-id"]

\* The ids the switch of ProjectPage names.
KnownIds == {"crm", "game", "etl"}

\* "Project", the title the specification gives the placeholder
TitleProject ==
  <<80, 114, 111, 106, 101, 99, 116>>

\* "Description coming soon", the bullet the specification gives the placeholder
BulletComingSoon ==
  <<68, 101, 115, 99, 114, 105, 112, 116, 105, 111, 110, 32, 99, 111, 109, 105, 110,
    103, 32, 115, 111, 111, 110>>

\* C5 as written: the content of the three known ids is pairwise distinct,
\* is not the placeholder, has a title and a bullet; every other id gets the
\* placeholder {title: "Project", bulletPoints: ["Description coming soon"],
\* techDescription: "", screenshotPaths: []}.
C5_PlaceholderInEnglish ==
  route.page = "project" =>
    LET c == ResolveContent(route.id)
        placeholder == [title |-> TitleProject, bullets |-> <<BulletComingSoon>>,
                        tech |-> "", screens |-> <<>>]
    IN IF route.id \in KnownIds
         THEN /\ c # placeholder
              /\ Len(c.title) > 0
              /\ Len(c.bullets) >= 1
              /\ \A other \in KnownIds \ {route.id} : ResolveContent(other) # c
         ELSE c = placeholder

\* C5 amended: the same, the placeholder being the one of line 389, whose
\* title and bullet are the Russian strings TitleDefault and BulletDefault.
C5_ResolveContent ==
  route.page = "project" =>
    LET c == ResolveContent(route.id)
        placeholder == [title |-> TitleDefault, bullets |-> <<BulletDefault>>,
                        tech |-> "", screens |-> <<>>]
    IN IF route.id \in KnownIds
         THEN /\ c # placeholder
              /\ Len(c.title) > 0
              /\ Len(c.bullets) >= 1
              /\ \A other \in KnownIds \ {route.id} : ResolveContent(other) # c
         ELSE c = placeholder

\* The project page shows an id that differs from a known one only in case.
C5_Witness ==
  /\ route.page = "project"
  /\ route.id = "CRM"
  /\ ResolveContent(route.id).title = TitleDefault

\* C6: the route changes only in a click on a project card or on the back
\* button; a click on the back button leaves it Home; and no step leads
\* from one project page to another.
C6_RouteChangesOnUserAction ==
  [][/\ route' # route =>
          \E x \in Xs, y \in Ys, seed \in RandomSeeds, target \in CardIds \cup {"back"} :
            Click(x, y, target, seed)
     /\ (\E x \in Xs, y \in Ys, seed \in RandomSeeds : Click(x, y, "back", seed)) =>
          route' = [page |-> "home"]
     /\ ~(route.page = "project" /\ route'.page = "project" /\ route' # route)]_vars

\* A project page is shown after the batch of the click that opened it has
\* expired and the pointer has moved onto a dark surface.
C6_Witness ==
  /\ route.page = "project"
  /\ mounted
  /\ isDark
  /\ now >= Duration
  /\ timers = <<>>

\* The elements of the chain from el up to the root.
RECURSIVE ChainOf(_)
ChainOf(el) == IF el = Null THEN {} ELSE {el} \cup ChainOf(ParentOf(el))

\* A class string carries a dark-surface marker.
CarriesMarker(cls) ==
  \E marker \in {MarkerBgBlack, MarkerTextWhite, MarkerBgNeutral900} : Includes(cls, marker)

\* The elements with a marker somewhere on their chain.
DarkChains == {el \in Elements : \E n \in ChainOf(el) : CarriesMarker(ClassOf(n))}

\* C7: after a pointer-move that the cursor receives, isDark is true exactly
\* when an element of the chain of the element under the pointer carries a
\* marker; it is false for null.
C7_DarkSurface ==
  [][\A x \in Xs, y \in Ys, el \in Elements \cup {Null} :
       (MouseMove(x, y, el) /\ "mousemove" \in listeners) => isDark' = (el \in DarkChains)]_vars

\* The pointer is over a dark surface of the project page, pressed.
C7_Witness ==
  /\ isDark
  /\ down
  /\ route.page = "project"
  /\ pos = [x |-> 2, y |-> 3]

\* C8: a pointer-move that the cursor receives sets pos to its coordinates,
\* and no other step changes pos.
C8_LastWriteWins ==
  [][/\ \A x \in Xs, y \in Ys, el \in Elements \cup {Null} :
          (MouseMove(x, y, el) /\ "mousemove" \in listeners) => pos' = [x |-> x, y |-> y]
     /\ ~(\E x \in Xs, y \in Ys, el \in Elements \cup {Null} : MouseMove(x, y, el)) =>
          pos' = pos]_vars

\* The pointer has moved, and clicks, a press and an expiry have happened.
C8_Witness ==
  /\ pos = [x |-> 2, y |-> 3]
  /\ down
  /\ Len(timers) = 1
  /\ Len(particles) = count
  /\ now >= Duration

\* C10: the teardown removes every listener and cancels every pending expiry
\* timer, so nothing runs against the unmounted cursor.
C10_TeardownCancels ==
  ~mounted => listeners = {} /\ timers = <<>>

\* C11: a click's batch reflects the pointer state at the click: every
\* particle a handled click adds has the origin (pos.x, pos.y) in effect when
\* the click is processed, and no later pointer-move changes the origin of a
\* particle that stays in the list.
C11_OriginIsPointerState ==
  [][/\ \A x \in Xs, y \in Ys, seed \in RandomSeeds, target \in CardIds \cup {"none", "back"} :
          (Click(x, y, target, seed) /\ "click" \in listeners) =>
            \A k \in (Len(particles) + 1)..Len(particles') :
              /\ particles'[k].x = pos.x
              /\ particles'[k].y = pos.y
     /\ (\E x \in Xs, y \in Ys, el \in Elements \cup {Null} : MouseMove(x, y, el)) =>
          particles' = particles]_vars

\* C12: whenever a project page is shown the route carries an id, the id is
\* the one of a project card ("crm", "game" or "etl"), and the content shown
\* for it is not the one of the default branch.
C12_RouteIdIsCardId ==
  route.page = "project" =>
    /\ "id" \in DOMAIN route
    /\ route.id \in {"crm", "game", "etl"}
    /\ ResolveContent(route.id) # DefaultContent

\* The third card has been opened by a click, whose batch is still live.
C12_Witness ==
  /\ mounted
  /\ route = [page |-> "project", id |-> "etl"]
  /\ Len(particles) = count
  /\ Len(timers) = 1

====
